---- MODULE Spec2Model ----
(***************************************************************************)
(* The edge worker of src/src/backend/api.ts: the in-memory table          *)
(* downloadStatuses, the fetch handler with all of its routes, and the     *)
(* three setTimeout callbacks each accepted POST /api/download schedules.  *)
(* The worker is single-threaded JavaScript: a handler body and a timer    *)
(* callback each run to completion, so each is one action.  Time is the    *)
(* millisecond clock read by Date.now(); it only moves forward.  A timer   *)
(* runs at or after its deadline, timers run in the order of their         *)
(* deadlines, and requests may be handled while timers are overdue.        *)
(* wire carries the response of the last handled request to the client;    *)
(* lib/api.ts gives the paths the client asks for and the members it reads *)
(* from a response.                                                        *)
(*                                                                         *)
(* The client of src/src/lib/api.ts and src/src/App.tsx is modelled beside *)
(* it: pollDownloadStatus as the state of one call (poller) and the App's  *)
(* component state with its requests in flight (app).  The client is       *)
(* written against the interface lib/api.ts declares, so its requests are  *)
(* answered by any server of that interface: every answer the declared     *)
(* types allow, an HTTP error, or no answer at all.                        *)
(***************************************************************************)
EXTENDS Integers, Sequences, FiniteSets, TLC

VARIABLES downloadStatuses, timers, now, jobs, wire, poller, app

vars == <<downloadStatuses, timers, now, jobs, wire, poller, app>>
client == <<poller, app>>
worker == <<downloadStatuses, timers, now, jobs, wire>>

(***************************************************************************)
(* Bounds of the exploration.                                              *)
(***************************************************************************)
MaxTicks == 4    \* the clock is observed at the instants 0, Delay1, .., MaxTicks * Delay1
MaxJobs == 2     \* accepted submits
MaxAttempts == 3 \* largest maxAttempts a pollDownloadStatus call is given
MaxPolls == 2    \* status requests the App lets one of its pollers send

\* the delays of the three setTimeout calls, in milliseconds
Delay1 == 1000
Delay2 == 2000
Delay3 == 3000

MaxTime == MaxTicks * Delay1
TimePoints == {k * Delay1 : k \in 0..MaxTicks}

\* "Automatic cleanup after 24 hours", in milliseconds
RetentionWindow == 86400000
\* the readings of Date.now(): the instants of the callbacks' deadlines and
\* one instant past the retention window of every job
Instants == TimePoints \cup {MaxTime + RetentionWindow}

(***************************************************************************)
(* JavaScript values.                                                      *)
(***************************************************************************)
Undefined == "undefined"
Falsy(v) == v \in {Undefined, ""}

(***************************************************************************)
(* Platform detection.  A regular expression is modelled by its test()     *)
(* result on each of the sample urls.                                      *)
(***************************************************************************)
UrlYoutube == "https://www.youtube.com/watch?v=abc12345678"
UrlYoutubeShortId == "https://www.youtube.com/watch?v=short"
UrlVimeoTwitch == "https://vimeo.com/123456789?ref=twitch.tv/videos/42"
UrlExample == "https://example.com/video"
UrlNotAUrl == "not-a-url"
Urls == {"", UrlNotAUrl, UrlExample, UrlYoutube, UrlYoutubeShortId, UrlVimeoTwitch}

PatternOrder == <<"youtube", "tiktok", "instagram", "twitter", "vimeo", "facebook", "twitch">>

platformPatterns ==
    [youtube   |-> {UrlYoutube},
     tiktok    |-> {},
     instagram |-> {},
     twitter   |-> {},
     vimeo     |-> {UrlVimeoTwitch},
     facebook  |-> {},
     twitch    |-> {UrlVimeoTwitch}]

RegexTest(platform, url) == url \in platformPatterns[platform]

Capitalize ==
    [youtube   |-> "Youtube",
     tiktok    |-> "Tiktok",
     instagram |-> "Instagram",
     twitter   |-> "Twitter",
     vimeo     |-> "Vimeo",
     facebook  |-> "Facebook",
     twitch    |-> "Twitch"]

FirstMatchLast(url) ==
    LET hits == {i \in 1..Len(PatternOrder) : RegexTest(PatternOrder[i], url)}
    IN  IF hits = {} THEN 0 ELSE CHOOSE i \in hits : \A j \in hits : i >= j

FirstMatch(url) ==
    LET hits == {i \in 1..Len(PatternOrder) : RegexTest(PatternOrder[i], url)}
    IN  IF hits = {} THEN 0 ELSE CHOOSE i \in hits : \A j \in hits : i <= j

detectPlatform(url) ==
    IF FirstMatch(url) = 0 THEN "Unknown" ELSE Capitalize[PatternOrder[FirstMatch(url)]]

\* match[1] of the first pattern that matches, null otherwise
FirstGroup == [u \in Urls |->
    CASE u = UrlYoutube     -> "abc12345678"
      [] u = UrlVimeoTwitch -> "123456789"
      [] OTHER              -> Undefined]

extractVideoId(url) == IF FirstMatch(url) = 0 THEN Undefined ELSE FirstGroup[url]

(***************************************************************************)
(* Identifiers.  'dl_' + random part + Date.now(): the random part is one  *)
(* of two sample outcomes of Math.random(), the time part the clock value. *)
(* The real time part has a fixed width, so (random, time) -> id is one to *)
(* one; letter-only random parts keep it so here.                          *)
(***************************************************************************)
Rands == {"k", "q"}

generateDownloadId(rand, t) == "dl_" \o rand \o ToString(t)

toISOString(t) == "T" \o ToString(t)

NeverIssuedId == "dl_none"

(***************************************************************************)
(* Requests.                                                               *)
(***************************************************************************)
NoBody == [json |-> "none", url |-> Undefined, format |-> Undefined, quality |-> Undefined]
JsonBody(u, f, q) == [json |-> "object", url |-> u, format |-> f, quality |-> q]
MalformedBody == [json |-> "malformed", url |-> Undefined, format |-> Undefined, quality |-> Undefined]

DownloadBodies ==
    {JsonBody(UrlYoutube, "mp4", "720p"),
     JsonBody(UrlVimeoTwitch, "mp4", "1080p"),
     JsonBody("", "mp4", "720p"),
     JsonBody(UrlNotAUrl, Undefined, Undefined),
     JsonBody(UrlExample, "mp4", "720p"),
     JsonBody(UrlYoutube, "mp4", Undefined),
     JsonBody(UrlYoutube, "mp4", "9999p"),
     MalformedBody}

VideoInfoBodies ==
    {JsonBody(UrlYoutube, Undefined, Undefined),
     JsonBody(UrlYoutubeShortId, Undefined, Undefined),
     JsonBody(UrlVimeoTwitch, Undefined, Undefined),
     JsonBody(Undefined, Undefined, Undefined)}

MissingFieldsUrlOnly(body) == Falsy(body.url)

\* !body.url || !body.format || !body.quality
MissingFields(body) == Falsy(body.url) \/ Falsy(body.format) \/ Falsy(body.quality)

Request(m, p, b) == [method |-> m, path |-> p, body |-> b]

PathDownload == <<"api", "download">>
PathDownloadId(id) == <<"api", "download", id>>
PathDownloadIdStatus(id) == <<"api", "download", id, "status">>
PathDownloadIdFile(id) == <<"api", "download", id, "file">>
PathHealth == <<"api", "health">>
PathVideoInfo == <<"api", "video-info">>
PathSupportedPlatforms == <<"api", "supported-platforms">>

\* the ids a request may name: every stored id and one that was never issued
RequestIds == DOMAIN downloadStatuses \cup {NeverIssuedId}

Requests ==
    {Request("OPTIONS", PathDownload, NoBody),
     Request("GET", PathHealth, NoBody),
     Request("GET", PathSupportedPlatforms, NoBody)}
    \cup {Request("POST", PathVideoInfo, b) : b \in VideoInfoBodies}
    \cup {Request("POST", PathDownload, b) : b \in DownloadBodies}
    \cup {Request("GET", PathDownloadId(id), NoBody) : id \in RequestIds}
    \cup {Request("GET", PathDownloadIdStatus(id), NoBody) : id \in RequestIds}
    \cup {Request("GET", PathDownloadIdFile(id), NoBody) : id \in RequestIds}
    \cup {Request("DELETE", PathDownloadId(id), NoBody) : id \in RequestIds}

(***************************************************************************)
(* Responses.  wire holds the exchange whose response is on its way back,  *)
(* <<>> when there is none.                                                *)
(***************************************************************************)
Exchange(req, code, body) == <<[request |-> req, code |-> code, body |-> body]>>

ErrorBody(msg) == [error |-> msg]

\* what the client takes as the job's id from the response to its submit:
\* the member job_id of the parsed body
JobIdOf(body) == IF "job_id" \in DOMAIN body THEN body.job_id ELSE Undefined

\* /^\/api\/download\/([a-zA-Z0-9_]+)$/ : exactly one segment after /api/download
downloadMatch(path) == Len(path) = 3 /\ SubSeq(path, 1, 2) = PathDownload

(***************************************************************************)
(* The record a submit stores and the writes of the timer callbacks.       *)
(***************************************************************************)
NewDownloadStatus(id, t) ==
    [id |-> id, status |-> "queued", progress |-> 0, createdAt |-> toISOString(t),
     completedAt |-> Undefined, downloadUrl |-> Undefined]

Progress1 == 25
Progress2 == 75
Progress3 == 100

ProgressCallbackInverted(table, id, p) ==
    IF id \in DOMAIN table
    THEN [table EXCEPT ![id].status = "processing", ![id].progress = 100 - p]
    ELSE table

ProgressCallbackStatusOnly(table, id, p) ==
    IF id \in DOMAIN table
    THEN [table EXCEPT ![id].status = "processing"]
    ELSE table

ProgressCallback(table, id, p) ==
    IF id \in DOMAIN table
    THEN [table EXCEPT ![id].status = "processing", ![id].progress = p]
    ELSE table

CompletionCallbackNoUrl(table, id, format, t) ==
    IF id \in DOMAIN table
    THEN [table EXCEPT ![id].status = "completed",
                       ![id].progress = Progress3,
                       ![id].completedAt = toISOString(t)]
    ELSE table

CompletionCallbackKeepsProgress(table, id, format, t) ==
    IF id \in DOMAIN table
    THEN [table EXCEPT ![id].status = "completed",
                       ![id].completedAt = toISOString(t),
                       ![id].downloadUrl = "/files/" \o id \o "." \o format]
    ELSE table

CompletionCallbackNoCompletedAt(table, id, format, t) ==
    IF id \in DOMAIN table
    THEN [table EXCEPT ![id].status = "completed",
                       ![id].progress = Progress3,
                       ![id].downloadUrl = "/files/" \o id \o "." \o format]
    ELSE table

CompletionCallback(table, id, format, t) ==
    IF id \in DOMAIN table
    THEN [table EXCEPT ![id].status = "completed",
                       ![id].progress = Progress3,
                       ![id].completedAt = toISOString(t),
                       ![id].downloadUrl = "/files/" \o id \o "." \o format]
    ELSE table

ScheduledTimersNoCompletion(job, id, format, t) ==
    {[seq |-> 3 * job + 1, due |-> t + Delay1, job |-> job, id |-> id, step |-> 1, format |-> format],
     [seq |-> 3 * job + 2, due |-> t + Delay2, job |-> job, id |-> id, step |-> 2, format |-> format]}

\* the three setTimeout calls of the job-th accepted submit
ScheduledTimers(job, id, format, t) ==
    {[seq |-> 3 * job + 1, due |-> t + Delay1, job |-> job, id |-> id, step |-> 1, format |-> format],
     [seq |-> 3 * job + 2, due |-> t + Delay2, job |-> job, id |-> id, step |-> 2, format |-> format],
     [seq |-> 3 * job + 3, due |-> t + Delay3, job |-> job, id |-> id, step |-> 3, format |-> format]}

NextTimerLastSet(pending) == CHOOSE a \in pending : \A b \in pending : a.seq >= b.seq

\* timers run in the order of their deadlines, equal deadlines in the order set
Before(a, b) == a.due < b.due \/ (a.due = b.due /\ a.seq <= b.seq)
NextTimer(pending) == CHOOSE a \in pending : \A b \in pending : Before(a, b)

Put(table, id, rec) == [k \in DOMAIN table \cup {id} |-> IF k = id THEN rec ELSE table[k]]

(***************************************************************************)
(* Initial state: module load.                                             *)
(***************************************************************************)
(***************************************************************************)
(* The client: apiRequest and pollDownloadStatus of lib/api.ts.            *)
(***************************************************************************)
Statuses == {"queued", "processing", "completed", "error", "expired"}

\* a DownloadStatus as the server sends it
DownloadStatus(id, status) ==
    [id |-> id, status |-> status,
     error_message |-> IF status = "error" THEN "Extraction failed" ELSE Undefined]

\* no value: a promise not resolved, an answer without a body
NoValue == [id |-> Undefined, status |-> Undefined, error_message |-> Undefined]

\* what fetch() gives for a status request: a 2xx answer with a status, an
\* answer that is not ok (with or without a detail member), or a TypeError
HttpOk(body) == [kind |-> "response", code |-> 200, detail |-> Undefined, body |-> body]
HttpError(code, detail) == [kind |-> "response", code |-> code, detail |-> detail, body |-> NoValue]
NetworkFailure == [kind |-> "TypeError", code |-> 0, detail |-> Undefined, body |-> NoValue]

StatusAnswers(id) ==
    {HttpOk(DownloadStatus(id, s)) : s \in Statuses}
        \cup {HttpError(404, "Job not found"), HttpError(404, Undefined), NetworkFailure}

NetworkErrorMessage == "Network error - please check your connection and try again"
TimeoutMessage == "Download timeout - please try again"
OnUpdateError == "onUpdate threw"

\* apiRequest: the parsed body of an ok answer, an APIError otherwise
apiRequest(answer) ==
    IF answer.kind = "TypeError"
    THEN [ok |-> FALSE, value |-> NoValue, error |-> NetworkErrorMessage]
    ELSE IF answer.code \notin 200..299
    THEN [ok |-> FALSE, value |-> NoValue,
          error |-> IF Falsy(answer.detail) THEN "HTTP " \o ToString(answer.code) ELSE answer.detail]
    ELSE [ok |-> TRUE, value |-> answer.body, error |-> Undefined]

\* the state of one pollDownloadStatus call: attempts is the closure's
\* counter, phase is where poll() stands (awaiting getDownloadStatus, waiting
\* for setTimeout, or returned for good); settled, value and error are the
\* promise's state; did lists the calls the last task of poll() made
NotCalled ==
    [jobId |-> Undefined, maxAttempts |-> 0, attempts |-> 0, phase |-> "idle",
     settled |-> "pending", value |-> NoValue, error |-> Undefined, did |-> <<>>]

\* poll() up to its await: attempts++ and the status request
poll(p) == [p EXCEPT !.attempts = @ + 1, !.phase = "awaiting", !.did = <<"getDownloadStatus">>]

\* new Promise(...) with attempts = 0, then the first poll()
pollDownloadStatus(jobId, maxAttempts) ==
    poll([NotCalled EXCEPT !.jobId = jobId, !.maxAttempts = maxAttempts])

\* resolve and reject settle a pending promise and do nothing to a settled one
resolve(p, value) ==
    IF p.settled = "pending" THEN [p EXCEPT !.settled = "resolved", !.value = value] ELSE p
reject(p, error) ==
    IF p.settled = "pending" THEN [p EXCEPT !.settled = "rejected", !.error = error] ELSE p

pollResumeSkipsTerminalUpdate(p, result, onUpdateThrows) ==
    IF ~result.ok
    THEN [reject(p, result.error) EXCEPT !.phase = "done", !.did = <<"reject">>]
    ELSE IF result.value.status = "completed" \/ result.value.status = "error"
                \/ result.value.status = "expired"
    THEN [resolve(p, result.value) EXCEPT !.phase = "done", !.did = <<"resolve">>]
    ELSE IF onUpdateThrows
    THEN [reject(p, OnUpdateError) EXCEPT !.phase = "done", !.did = <<"onUpdate", "reject">>]
    ELSE IF p.attempts >= p.maxAttempts
    THEN [reject(p, TimeoutMessage) EXCEPT !.phase = "done", !.did = <<"onUpdate", "reject">>]
    ELSE [p EXCEPT !.phase = "sleeping", !.did = <<"onUpdate", "setTimeout">>]

pollResumeOffByOne(p, result, onUpdateThrows) ==
    IF ~result.ok
    THEN [reject(p, result.error) EXCEPT !.phase = "done", !.did = <<"reject">>]
    ELSE IF onUpdateThrows
    THEN [reject(p, OnUpdateError) EXCEPT !.phase = "done", !.did = <<"onUpdate", "reject">>]
    ELSE IF result.value.status = "completed" \/ result.value.status = "error"
                \/ result.value.status = "expired"
    THEN [resolve(p, result.value) EXCEPT !.phase = "done", !.did = <<"onUpdate", "resolve">>]
    ELSE IF p.attempts > p.maxAttempts
    THEN [reject(p, TimeoutMessage) EXCEPT !.phase = "done", !.did = <<"onUpdate", "reject">>]
    ELSE [p EXCEPT !.phase = "sleeping", !.did = <<"onUpdate", "setTimeout">>]

pollResumeRetriesFailure(p, result, onUpdateThrows) ==
    IF ~result.ok
    THEN IF p.attempts >= p.maxAttempts
         THEN [reject(p, TimeoutMessage) EXCEPT !.phase = "done", !.did = <<"reject">>]
         ELSE [p EXCEPT !.phase = "sleeping", !.did = <<"setTimeout">>]
    ELSE IF onUpdateThrows
    THEN [reject(p, OnUpdateError) EXCEPT !.phase = "done", !.did = <<"onUpdate", "reject">>]
    ELSE IF result.value.status = "completed" \/ result.value.status = "error"
                \/ result.value.status = "expired"
    THEN [resolve(p, result.value) EXCEPT !.phase = "done", !.did = <<"onUpdate", "resolve">>]
    ELSE IF p.attempts >= p.maxAttempts
    THEN [reject(p, TimeoutMessage) EXCEPT !.phase = "done", !.did = <<"onUpdate", "reject">>]
    ELSE [p EXCEPT !.phase = "sleeping", !.did = <<"onUpdate", "setTimeout">>]

pollResumeNoReturn(p, result, onUpdateThrows) ==
    IF ~result.ok
    THEN [reject(p, result.error) EXCEPT !.phase = "done", !.did = <<"reject">>]
    ELSE IF onUpdateThrows
    THEN [reject(p, OnUpdateError) EXCEPT !.phase = "done", !.did = <<"onUpdate", "reject">>]
    ELSE IF result.value.status = "completed" \/ result.value.status = "error"
                \/ result.value.status = "expired"
    THEN IF p.attempts >= p.maxAttempts
         THEN [resolve(p, result.value) EXCEPT !.phase = "done", !.did = <<"onUpdate", "resolve", "reject">>]
         ELSE [resolve(p, result.value) EXCEPT !.phase = "sleeping", !.did = <<"onUpdate", "resolve", "setTimeout">>]
    ELSE IF p.attempts >= p.maxAttempts
    THEN [reject(p, TimeoutMessage) EXCEPT !.phase = "done", !.did = <<"onUpdate", "reject">>]
    ELSE [p EXCEPT !.phase = "sleeping", !.did = <<"onUpdate", "setTimeout">>]

\* poll() after its await: the catch, onUpdate, the terminal test, the
\* attempt budget, setTimeout
pollResume(p, result, onUpdateThrows) ==
    IF ~result.ok
    THEN [reject(p, result.error) EXCEPT !.phase = "done", !.did = <<"reject">>]
    ELSE IF onUpdateThrows
    THEN [reject(p, OnUpdateError) EXCEPT !.phase = "done", !.did = <<"onUpdate", "reject">>]
    ELSE IF result.value.status = "completed" \/ result.value.status = "error"
                \/ result.value.status = "expired"
    THEN [resolve(p, result.value) EXCEPT !.phase = "done", !.did = <<"onUpdate", "resolve">>]
    ELSE IF p.attempts >= p.maxAttempts
    THEN [reject(p, TimeoutMessage) EXCEPT !.phase = "done", !.did = <<"onUpdate", "reject">>]
    ELSE [p EXCEPT !.phase = "sleeping", !.did = <<"onUpdate", "setTimeout">>]

\* what a run of one call has done so far: the status requests sent, the
\* answers received, the statuses fetched, the statuses passed to onUpdate,
\* the calls of resolve and reject
NoLog == [requests |-> 0, answers |-> 0, fetched |-> <<>>, updates |-> <<>>, settles |-> <<>>, lastThrew |-> FALSE]

Count(did, what) == Cardinality({i \in 1..Len(did) : did[i] = what})

Logged(log, p, answered, result, onUpdateThrows) ==
    [requests |-> log.requests + Count(p.did, "getDownloadStatus"),
     answers |-> log.answers + answered,
     fetched |-> IF result.ok THEN Append(log.fetched, result.value) ELSE log.fetched,
     updates |-> IF Count(p.did, "onUpdate") > 0 THEN Append(log.updates, result.value) ELSE log.updates,
     settles |-> log.settles \o [i \in 1..(Count(p.did, "resolve") + Count(p.did, "reject")) |-> p.settled],
     lastThrew |-> onUpdateThrows]

NoResult == [ok |-> FALSE, value |-> NoValue, error |-> Undefined]

IdlePoller == [call |-> NotCalled, log |-> NoLog]

(***************************************************************************)
(* The App: the component state of VideoDownloader and what it has in      *)
(* flight.  backend is the job table of the server the App talks to.       *)
(***************************************************************************)
\* the ids the backend gives to the jobs it accepts, each once
JobIds == {"job_1", "job_2"}

\* what the user types into the url field
TypedUrls == {UrlExample, UrlYoutube}
AppUrls == {"", "   ", UrlNotAUrl} \cup TypedUrls

trim(url) == IF url = "   " THEN "" ELSE url

\* new URL(url) throws for "", blanks and not-a-url; the hostname of the
\* other samples is tested against supportedDomains
isValidVideoUrl(url) == url \in {UrlYoutube, UrlYoutubeShortId, UrlVimeoTwitch}

BlankUrlMessage == "Please enter a valid video URL"
InvalidUrlMessage == "Please enter a valid video URL from a supported platform"
OfflineMessage == "Backend service is offline. Please try again later."
MonitoringFailedMessage == "Download monitoring failed"
SubmitErrors == {"Unsupported platform"}

\* the early returns of handleDownload: the message passed to setError, ""
\* when the submit goes ahead
handleDownloadGuardIgnoresOffline(url, backendStatus) ==
    IF trim(url) = "" THEN BlankUrlMessage
    ELSE IF ~isValidVideoUrl(url) THEN InvalidUrlMessage
    ELSE ""

handleDownloadGuard(url, backendStatus) ==
    IF trim(url) = "" THEN BlankUrlMessage
    ELSE IF ~isValidVideoUrl(url) THEN InvalidUrlMessage
    ELSE IF backendStatus = "offline" THEN OfflineMessage
    ELSE ""

\* pollDownloadStatus's default maxAttempts
DefaultMaxAttempts == 300

\* a DownloadItem: the DownloadStatus of the submit's answer and the url
DownloadItem(status, url) ==
    [id |-> status.id, status |-> status.status, error_message |-> status.error_message, url |-> url]

\* { ...item, ...status }: a member that status lacks keeps the item's value
Merge(item, status) ==
    [item EXCEPT !.id = status.id,
                 !.status = status.status,
                 !.error_message = IF status.error_message = Undefined THEN @ ELSE status.error_message]

\* prev.map(item => item.id === jobId ? { ...item, ...updatedStatus } : item)
onUpdate(downloads, jobId, status) ==
    [i \in 1..Len(downloads) |->
        IF downloads[i].id = jobId THEN Merge(downloads[i], status) ELSE downloads[i]]

\* the .catch of the poller's promise
pollCatch(downloads, jobId) ==
    [i \in 1..Len(downloads) |->
        IF downloads[i].id = jobId
        THEN [downloads[i] EXCEPT !.status = "error", !.error_message = MonitoringFailedMessage]
        ELSE downloads[i]]

\* prev.filter(item => item.id !== downloadId)
Filter(downloads, downloadId) ==
    SelectSeq(downloads, LAMBDA item : item.id # downloadId)

\* a job of the backend: its status, and whether a cleanup has deleted it
BackendJob(status) == [status |-> status, deleted |-> FALSE]

IdleApp ==
    [url |-> "", backendStatus |-> "checking", error |-> "", isProcessing |-> FALSE,
     downloads |-> <<>>,
     submitting |-> Undefined,
     pollers |-> <<>>,
     refreshing |-> {},
     cleaning |-> {},
     backend |-> <<>>]

Init ==
    /\ downloadStatuses = <<>>
    /\ timers = {}
    /\ now = 0
    /\ jobs = 0
    /\ wire = <<>>
    /\ poller = IdlePoller
    /\ app = IdleApp

(***************************************************************************)
(* fetch, one action per route of the handler.                             *)
(***************************************************************************)
Unchanged(req, code, body) ==
    /\ wire' = Exchange(req, code, body)
    /\ UNCHANGED <<downloadStatuses, timers, now, jobs>>

Preflight(req) ==
    /\ req.method = "OPTIONS"
    /\ Unchanged(req, 200, [null |-> TRUE])

Health(req) ==
    /\ req.method = "GET" /\ req.path = PathHealth
    /\ Unchanged(req, 200, [status |-> "healthy", timestamp |-> toISOString(now)])

VideoInfo(req) ==
    /\ req.method = "POST" /\ req.path = PathVideoInfo
    /\ req.body.json = "object"
    /\ IF Falsy(req.body.url)
       THEN Unchanged(req, 400, ErrorBody("URL is required"))
       ELSE IF detectPlatform(req.body.url) = "Unknown" \/ Falsy(extractVideoId(req.body.url))
       THEN Unchanged(req, 400, ErrorBody("Unsupported platform or invalid URL"))
       ELSE Unchanged(req, 200, [videoInfo |-> [id |-> extractVideoId(req.body.url),
                                                url |-> req.body.url,
                                                platform |-> detectPlatform(req.body.url)]])

StartDownloadRejected(req) ==
    /\ req.method = "POST" /\ req.path = PathDownload
    /\ req.body.json = "object"
    /\ \/ /\ MissingFields(req.body)
          /\ Unchanged(req, 400, ErrorBody("URL, format, and quality are required"))
       \/ /\ ~MissingFields(req.body)
          /\ detectPlatform(req.body.url) = "Unknown"
          /\ Unchanged(req, 400, ErrorBody("Unsupported platform"))

StartDownload(req, rand) ==
    /\ req.method = "POST" /\ req.path = PathDownload
    /\ req.body.json = "object"
    /\ ~MissingFields(req.body)
    /\ detectPlatform(req.body.url) # "Unknown"
    /\ jobs < MaxJobs                \* cap on the number of accepted submits
    /\ now + Delay3 <= MaxTime       \* cap: its last timer falls inside the clock's range
    /\ LET downloadId == generateDownloadId(rand, now)
           downloadStatus == NewDownloadStatus(downloadId, now)
       IN  /\ downloadStatuses' = Put(downloadStatuses, downloadId, downloadStatus)
           /\ timers' = timers \cup ScheduledTimers(jobs, downloadId, req.body.format, now)
           /\ jobs' = jobs + 1
           /\ wire' = Exchange(req, 200, [downloadId |-> downloadId, status |-> downloadStatus])
           /\ UNCHANGED now

GetDownloadWaits(req) ==
    /\ req.method = "GET" /\ downloadMatch(req.path)
    /\ \A t \in timers : t.id # req.path[3]
    /\ LET downloadId == req.path[3]
       IN  IF downloadId \notin DOMAIN downloadStatuses
           THEN Unchanged(req, 404, ErrorBody("Download not found"))
           ELSE Unchanged(req, 200, [status |-> downloadStatuses[downloadId]])

GetDownloadConsumes(req) ==
    /\ req.method = "GET" /\ downloadMatch(req.path)
    /\ LET downloadId == req.path[3]
       IN  IF downloadId \notin DOMAIN downloadStatuses
           THEN Unchanged(req, 404, ErrorBody("Download not found"))
           ELSE /\ wire' = Exchange(req, 200, [status |-> downloadStatuses[downloadId]])
                /\ downloadStatuses' = [k \in DOMAIN downloadStatuses \ {downloadId} |-> downloadStatuses[k]]
                /\ UNCHANGED <<timers, now, jobs>>

GetDownload(req) ==
    /\ req.method = "GET" /\ downloadMatch(req.path)
    /\ LET downloadId == req.path[3]
       IN  IF downloadId \notin DOMAIN downloadStatuses
           THEN Unchanged(req, 404, ErrorBody("Download not found"))
           ELSE Unchanged(req, 200, [status |-> downloadStatuses[downloadId]])

SupportedPlatforms(req) ==
    /\ req.method = "GET" /\ req.path = PathSupportedPlatforms
    /\ Unchanged(req, 200, [platforms |-> [i \in 1..Len(PatternOrder) |-> Capitalize[PatternOrder[i]]]])

NotFound(req) ==
    /\ req.method # "OPTIONS"
    /\ ~(req.method = "GET" /\ req.path = PathHealth)
    /\ ~(req.method = "POST" /\ req.path = PathVideoInfo)
    /\ ~(req.method = "POST" /\ req.path = PathDownload)
    /\ ~(req.method = "GET" /\ downloadMatch(req.path))
    /\ ~(req.method = "GET" /\ req.path = PathSupportedPlatforms)
    /\ Unchanged(req, 404, [error |-> "Not Found", path |-> req.path])

InternalServerErrorHalfJob(req) ==
    /\ req.method = "POST" /\ req.path \in {PathVideoInfo, PathDownload}
    /\ req.body.json = "malformed"
    /\ wire' = Exchange(req, 500, ErrorBody("Internal Server Error"))
    /\ downloadStatuses' = Put(downloadStatuses, generateDownloadId("k", now),
                               [NewDownloadStatus(generateDownloadId("k", now), now) EXCEPT !.createdAt = Undefined])
    /\ UNCHANGED <<timers, now, jobs>>

\* request.json() throws on a body that is not JSON; the catch answers 500
InternalServerError(req) ==
    /\ req.method = "POST" /\ req.path \in {PathVideoInfo, PathDownload}
    /\ req.body.json = "malformed"
    /\ Unchanged(req, 500, ErrorBody("Internal Server Error"))

Fetch ==
    /\ wire = <<>>
    /\ \E req \in Requests :
        \/ Preflight(req)
        \/ Health(req)
        \/ VideoInfo(req)
        \/ StartDownloadRejected(req)
        \/ \E rand \in Rands : StartDownload(req, rand)
        \/ GetDownload(req)
        \/ SupportedPlatforms(req)
        \/ NotFound(req)
        \/ InternalServerError(req)
    /\ UNCHANGED client

\* the response leaves the worker
Deliver ==
    /\ wire # <<>>
    /\ wire' = <<>>
    /\ UNCHANGED <<downloadStatuses, timers, now, jobs, client>>

(***************************************************************************)
(* The timer callbacks and the clock.                                      *)
(***************************************************************************)
FireTimer ==
    /\ timers # {}
    /\ LET t == NextTimer(timers)
       IN  /\ t.due <= now
           /\ timers' = timers \ {t}
           /\ downloadStatuses' =
                 CASE t.step = 1 -> ProgressCallback(downloadStatuses, t.id, Progress1)
                   [] t.step = 2 -> ProgressCallback(downloadStatuses, t.id, Progress2)
                   [] t.step = 3 -> CompletionCallback(downloadStatuses, t.id, t.format, now)
    /\ UNCHANGED <<now, jobs, wire, client>>

Advance ==
    /\ \E t \in Instants : t > now /\ now' = t
    /\ UNCHANGED <<downloadStatuses, timers, jobs, wire, client>>

Next == Fetch \/ Deliver \/ FireTimer \/ Advance

Spec == Init /\ [][Next]_vars

\* every scheduled callback eventually fires: the clock keeps running and a
\* due timer is run
FairSpec == Spec /\ WF_vars(Advance) /\ WF_vars(FireTimer)

(***************************************************************************)
(* One call of pollDownloadStatus.  Each of its steps is one JavaScript    *)
(* task: the call itself, the continuation of poll() when the status       *)
(* request settles, and the setTimeout callback.  onUpdate is the caller's *)
(* function: it returns or throws.                                         *)
(***************************************************************************)
PollJobIds == {"job_1"}
AttemptBudgets == (0 - 1)..MaxAttempts

PollCall ==
    /\ poller.call.phase = "idle"
    /\ \E jobId \in PollJobIds, maxAttempts \in AttemptBudgets :
          LET after == pollDownloadStatus(jobId, maxAttempts)
          IN  poller' = [call |-> after, log |-> Logged(poller.log, after, 0, NoResult, FALSE)]
    /\ UNCHANGED <<worker, app>>

PollResponse ==
    /\ poller.call.phase = "awaiting"
    /\ \E answer \in StatusAnswers(poller.call.jobId), onUpdateThrows \in BOOLEAN :
          LET result == apiRequest(answer)
              after == pollResume(poller.call, result, onUpdateThrows)
          IN  /\ onUpdateThrows => result.ok
              /\ poller' = [call |-> after, log |-> Logged(poller.log, after, 1, result, onUpdateThrows)]
    /\ UNCHANGED <<worker, app>>

PollTimer ==
    /\ poller.call.phase = "sleeping"
    /\ LET after == poll(poller.call)
       IN  poller' = [call |-> after, log |-> Logged(poller.log, after, 0, NoResult, FALSE)]
    /\ UNCHANGED <<worker, app>>

PollNext == PollCall \/ PollResponse \/ PollTimer

PollSpec == Init /\ [][PollNext]_vars

(***************************************************************************)
(* The App.  Each action is one task of the page: an event handler up to   *)
(* its await, or the continuation that consumes an answer.  A request is   *)
(* answered from the backend's state at the time of the answer, or fails;  *)
(* answers arrive in any order.  setDownloads takes an updater function,   *)
(* so every update applies to the list as it is when the task runs.        *)
(***************************************************************************)
ItemIds(downloads) == {downloads[i].id : i \in 1..Len(downloads)}
ItemOf(downloads, id) == downloads[CHOOSE i \in 1..Len(downloads) : downloads[i].id = id]

\* checkBackendStatus, after its await
HealthAnswer ==
    /\ app.backendStatus = "checking"
    /\ \E ok \in BOOLEAN :
          app' = [app EXCEPT !.backendStatus = IF ok THEN "online" ELSE "offline"]
    /\ UNCHANGED <<worker, poller>>

\* onChange of the url field
SetUrl ==
    /\ \E u \in TypedUrls :
          /\ u # app.url
          /\ app' = [app EXCEPT !.url = u]
    /\ UNCHANGED <<worker, poller>>

\* handleDownload up to its await; the button is disabled while the url is
\* blank or a submit is in flight
HandleDownload ==
    /\ trim(app.url) # "" /\ ~app.isProcessing
    /\ LET message == handleDownloadGuard(app.url, app.backendStatus)
       IN  IF message # ""
           THEN app' = [app EXCEPT !.error = message]
           ELSE app' = [app EXCEPT !.error = "", !.isProcessing = TRUE,
                                   !.submitting = app.url]
    /\ UNCHANGED <<worker, poller>>

\* handleDownload after its await, the submit refused or failed
SubmitRejected ==
    /\ app.submitting # Undefined
    /\ \E message \in SubmitErrors :
          app' = [app EXCEPT !.error = message, !.isProcessing = FALSE,
                             !.submitting = Undefined]
    /\ UNCHANGED <<worker, poller>>

\* handleDownload after its await, the submit accepted: the answer carries
\* the job's status and, when the server is of the declared interface, its
\* id as job_id; the worker's answer has no job_id
SubmitAccepted ==
    /\ app.submitting # Undefined
    /\ \E id \in JobIds \ DOMAIN app.backend : \E job_id \in {id, Undefined} :
          LET status == DownloadStatus(id, "queued")
              response == [job_id |-> job_id, status |-> status]
          IN  app' = [app EXCEPT
                        !.backend = Put(app.backend, id, BackendJob("queued")),
                        !.downloads = <<DownloadItem(response.status, app.submitting)>> \o @,
                        !.url = "",
                        !.pollers = Append(@, [job |-> id,
                                               call |-> pollDownloadStatus(response.job_id, DefaultMaxAttempts)]),
                        !.isProcessing = FALSE,
                        !.submitting = Undefined]
    /\ UNCHANGED <<worker, poller>>

\* the answers a status request for jobId can get: the job's status (also
\* after a cleanup, when the request had been handled before it) or no
\* answer; 404 when the backend never had the job
BackendStatusAnswers(jobId) ==
    IF jobId \in DOMAIN app.backend
    THEN {HttpOk(DownloadStatus(jobId, app.backend[jobId].status)), NetworkFailure}
    ELSE {HttpError(404, "Job not found")}

\* poll() of the k-th poller after its await, with the App's onUpdate and
\* the .catch of its promise
AppPollResponse ==
    /\ \E k \in 1..Len(app.pollers) :
          /\ app.pollers[k].call.phase = "awaiting"
          /\ \E answer \in BackendStatusAnswers(app.pollers[k].call.jobId) :
                LET call == app.pollers[k].call
                    result == apiRequest(answer)
                    after == pollResume(call, result, FALSE)
                    updated == IF Count(after.did, "onUpdate") > 0
                               THEN onUpdate(app.downloads, call.jobId, result.value)
                               ELSE app.downloads
                    caught == IF after.settled = "rejected" /\ call.settled = "pending"
                              THEN pollCatch(updated, call.jobId)
                              ELSE updated
                IN  app' = [app EXCEPT !.pollers[k].call = after,
                                       !.downloads = caught]
    /\ UNCHANGED <<worker, poller>>

\* the setTimeout callback of the k-th poller
AppPollTimer ==
    /\ \E k \in 1..Len(app.pollers) :
          /\ app.pollers[k].call.phase = "sleeping"
          /\ app.pollers[k].call.attempts < MaxPolls
          /\ app' = [app EXCEPT !.pollers[k].call = poll(@)]
    /\ UNCHANGED <<worker, poller>>

\* refreshDownloadStatus up to its await: the Refresh button of a completed
\* row, the Retry button of an error row
ClickRefresh ==
    /\ \E i \in 1..Len(app.downloads) :
          /\ app.downloads[i].status \in {"completed", "error"}
          /\ app.downloads[i].id \notin app.refreshing
          /\ app' = [app EXCEPT !.refreshing = @ \cup {app.downloads[i].id}]
    /\ UNCHANGED <<worker, poller>>

\* refreshDownloadStatus after its await
RefreshAnswer ==
    /\ \E id \in app.refreshing : \E answer \in BackendStatusAnswers(id) :
          LET result == apiRequest(answer)
          IN  app' = [app EXCEPT !.refreshing = @ \ {id},
                                 !.downloads = IF result.ok THEN onUpdate(@, id, result.value) ELSE @]
    /\ UNCHANGED <<worker, poller>>

\* handleCleanupDownload up to its await: the Remove button of a completed,
\* error or expired row
ClickRemove ==
    /\ \E i \in 1..Len(app.downloads) :
          /\ app.downloads[i].status \in {"completed", "error", "expired"}
          /\ app.downloads[i].id \notin app.cleaning
          /\ app' = [app EXCEPT !.cleaning = @ \cup {app.downloads[i].id}]
    /\ UNCHANGED <<worker, poller>>

CleanupAnswerAlwaysRemoves ==
    /\ \E id \in app.cleaning, ok \in BOOLEAN :
          /\ ok => ~app.backend[id].deleted
          /\ app' = [app EXCEPT !.cleaning = @ \ {id},
                                !.downloads = Filter(@, id),
                                !.backend[id].deleted = @ \/ ok]
    /\ UNCHANGED <<worker, poller>>

\* handleCleanupDownload after its await: the backend deleted the job and
\* said so, or the request failed
CleanupAnswer ==
    /\ \E id \in app.cleaning, ok \in BOOLEAN :
          /\ ok => ~app.backend[id].deleted
          /\ app' = [app EXCEPT !.cleaning = @ \ {id},
                                !.downloads = IF ok THEN Filter(@, id) ELSE @,
                                !.backend[id].deleted = @ \/ ok]
    /\ UNCHANGED <<worker, poller>>

\* the backend's job makes progress and succeeds or fails
BackendProgress ==
    /\ \E id \in DOMAIN app.backend, next \in Statuses :
          /\ ~app.backend[id].deleted
          /\ \/ app.backend[id].status = "queued" /\ next = "processing"
             \/ app.backend[id].status = "processing" /\ next \in {"completed", "error"}
          /\ app' = [app EXCEPT !.backend[id].status = next]
    /\ UNCHANGED <<worker, poller>>

AppNext ==
    \/ HealthAnswer
    \/ SetUrl
    \/ HandleDownload
    \/ SubmitRejected
    \/ SubmitAccepted
    \/ AppPollResponse
    \/ AppPollTimer
    \/ ClickRefresh
    \/ RefreshAnswer
    \/ ClickRemove
    \/ CleanupAnswer
    \/ BackendProgress

AppSpec == Init /\ [][AppNext]_vars

(***************************************************************************)
(* Properties.  A step answers a request when it puts an exchange on the   *)
(* empty wire; the request and the response of that step are those of the  *)
(* exchange.                                                               *)
(***************************************************************************)
Answers == wire = <<>> /\ wire' # <<>>
AnsweredRequest == wire'[1].request
Response == wire'[1]

IsSubmit(req) == req.method = "POST" /\ req.path = PathDownload /\ req.body.json = "object"

KnownPlatformUrls == {UrlYoutube, UrlVimeoTwitch}
UnknownPlatformUrls == {UrlNotAUrl, UrlExample}

ValidSubmit(req) ==
    /\ IsSubmit(req)
    /\ req.body.url \in KnownPlatformUrls
    /\ req.body.format \notin {Undefined, ""}
    /\ req.body.quality \notin {Undefined, ""}

InvalidSubmit(req) ==
    /\ IsSubmit(req)
    /\ \/ req.body.url = ""
       \/ req.body.url \in UnknownPlatformUrls
       \/ req.body.format = Undefined
       \/ req.body.quality = Undefined

TerminalStatuses == {"completed", "error", "expired"}

\* C1: a POST /api/download with non-empty url, format and quality and a url
\* of a known platform is answered 200 with the job's non-empty id as job_id
\* and the queued status; the record stored under that id is queued with
\* progress 0, and the three callbacks of the job are all still pending when
\* the response is produced.
C1_SubmitReturnsJobId ==
    [][(Answers /\ ValidSubmit(AnsweredRequest)) =>
          LET id == JobIdOf(Response.body)
          IN  /\ Response.code = 200
              /\ id \notin {Undefined, ""}
              /\ id \in DOMAIN downloadStatuses'
              /\ downloadStatuses'[id].status = "queued"
              /\ downloadStatuses'[id].progress = 0
              /\ Response.body.status.status = "queued"
              /\ ScheduledTimers(jobs, id, AnsweredRequest.body.format, now) \subseteq timers'
              /\ ScheduledTimers(jobs, id, AnsweredRequest.body.format, now) \cap timers = {}]_vars

\* C2: every change of a stored status is queued->processing,
\* processing->completed, processing->error or queued|processing->expired
\* (processing->processing leaves it as it is); a terminal status is never
\* followed by queued or processing.
AllowedStatusChanges ==
    {<<"queued", "processing">>, <<"processing", "processing">>,
     <<"processing", "completed">>, <<"processing", "error">>,
     <<"queued", "expired">>, <<"processing", "expired">>}

C2_StatusTransitions ==
    [][\A id \in DOMAIN downloadStatuses :
          (id \in DOMAIN downloadStatuses'
              /\ downloadStatuses'[id].status # downloadStatuses[id].status)
          => /\ <<downloadStatuses[id].status, downloadStatuses'[id].status>> \in AllowedStatusChanges
             /\ downloadStatuses[id].status \notin TerminalStatuses]_vars

\* two jobs at different points of their life: one completed, one processing
C2_Witness ==
    \E a, b \in DOMAIN downloadStatuses :
        /\ downloadStatuses[a].status = "completed"
        /\ downloadStatuses[b].status = "processing"
        /\ downloadStatuses[b].progress = Progress1

\* C3: the progress returned by successive status reads of one id never
\* decreases: a read returns the stored record as it is at that moment, and
\* no step lowers the stored progress of an id, whatever else runs between.
IsStatusRead(req) == req.method = "GET" /\ downloadMatch(req.path)

C3_ProgressMonotone ==
    [][/\ \A id \in DOMAIN downloadStatuses :
             id \in DOMAIN downloadStatuses'
                => downloadStatuses'[id].progress >= downloadStatuses[id].progress
       /\ (Answers /\ IsStatusRead(AnsweredRequest) /\ Response.code = 200)
             => Response.body.status = downloadStatuses[AnsweredRequest.path[3]]]_vars

\* a read that returns 75 while another job of the table is behind it
C3_Witness ==
    /\ wire # <<>>
    /\ IsStatusRead(wire[1].request)
    /\ wire[1].code = 200
    /\ wire[1].body.status.progress = Progress2
    /\ \E b \in DOMAIN downloadStatuses : downloadStatuses[b].progress = Progress1

\* C4: a POST /api/download with an empty url, a url of no known platform,
\* or no format or no quality is answered 400 and leaves the table and the
\* pending callbacks as they were.
C4_InvalidSubmitRejected ==
    [][(Answers /\ InvalidSubmit(AnsweredRequest)) =>
          /\ Response.code = 400
          /\ downloadStatuses' = downloadStatuses
          /\ timers' = timers
          /\ jobs' = jobs]_vars

\* https://example.com/video refused while the table holds a job
C4_Witness ==
    /\ wire # <<>>
    /\ IsSubmit(wire[1].request)
    /\ wire[1].request.body.url = UrlExample
    /\ wire[1].code = 400
    /\ downloadStatuses # <<>>

\* C5: an accepted submit obtains an id that no earlier submit obtained and
\* that names no record of the table.
C5_UniqueIds ==
    [][(Answers /\ IsSubmit(AnsweredRequest) /\ Response.code = 200) =>
          /\ Response.body.downloadId \notin DOMAIN downloadStatuses
          /\ Cardinality(DOMAIN downloadStatuses') = jobs']_vars

\* C6: under fair scheduling of the clock and of the due callbacks, every
\* id that gets a record ends with a terminal status.
IssuableIds == {generateDownloadId(r, t) : r \in Rands, t \in {u \in TimePoints : u + Delay3 <= MaxTime}}

C6_EventuallyTerminal ==
    \A id \in IssuableIds :
        (id \in DOMAIN downloadStatuses)
            ~> (id \in DOMAIN downloadStatuses /\ downloadStatuses[id].status \in TerminalStatuses)

\* two jobs, every callback run, both ended
C6_Witness ==
    /\ timers = {}
    /\ Cardinality(DOMAIN downloadStatuses) = 2
    /\ \A id \in DOMAIN downloadStatuses : downloadStatuses[id].status \in TerminalStatuses

\* C7: a stored record has its downloadUrl set exactly when its status is
\* completed.
C7_DownloadUrlIffCompleted ==
    \A id \in DOMAIN downloadStatuses :
        (downloadStatuses[id].downloadUrl # Undefined) <=> (downloadStatuses[id].status = "completed")

C7_Witness ==
    \E a, b \in DOMAIN downloadStatuses :
        /\ downloadStatuses[a].status = "completed"
        /\ downloadStatuses[a].downloadUrl = "/files/" \o a \o ".mp4"
        /\ downloadStatuses[b].status = "processing"
        /\ downloadStatuses[b].downloadUrl = Undefined

\* C8: the progress of a stored record is in 0..100, 0 while queued and 100
\* when completed.
C8_ProgressRange ==
    \A id \in DOMAIN downloadStatuses :
        /\ downloadStatuses[id].progress \in 0..100
        /\ downloadStatuses[id].status = "queued" => downloadStatuses[id].progress = 0
        /\ downloadStatuses[id].status = "completed" => downloadStatuses[id].progress = 100

C8_Witness ==
    \E a, b \in DOMAIN downloadStatuses :
        /\ downloadStatuses[a].status = "completed" /\ downloadStatuses[a].progress = 100
        /\ downloadStatuses[b].status = "processing" /\ downloadStatuses[b].progress = Progress2

\* C9: completedAt is absent while a record is queued or processing and set
\* when it is completed or error; the step that makes the status completed
\* or error is the step that sets it.
Ended == {"completed", "error"}

C9_CompletedAt ==
    [][\A id \in DOMAIN downloadStatuses' :
          /\ downloadStatuses'[id].status \in {"queued", "processing"}
                => downloadStatuses'[id].completedAt = Undefined
          /\ downloadStatuses'[id].status \in Ended
                => downloadStatuses'[id].completedAt # Undefined
          /\ (id \in DOMAIN downloadStatuses
                /\ downloadStatuses[id].status \notin Ended
                /\ downloadStatuses'[id].status \in Ended)
                => (downloadStatuses[id].completedAt = Undefined
                    /\ downloadStatuses'[id].completedAt = toISOString(now))]_vars

C9_Witness ==
    \E a, b \in DOMAIN downloadStatuses :
        /\ downloadStatuses[a].status = "completed"
        /\ downloadStatuses[a].completedAt \notin {Undefined, downloadStatuses[a].createdAt}
        /\ downloadStatuses[b].status = "processing"
        /\ downloadStatuses[b].completedAt = Undefined

\* C10: the client's status request GET /api/download/{id}/status is
\* answered 200 with the record when the table holds a record for id and
\* 404 when it holds none.
IsClientStatusRequest(req) ==
    /\ req.method = "GET"
    /\ Len(req.path) = 4
    /\ req.path = PathDownloadIdStatus(req.path[3])

C10_ClientStatusRead ==
    [][(Answers /\ IsClientStatusRequest(AnsweredRequest)) =>
          IF AnsweredRequest.path[3] \in DOMAIN downloadStatuses
          THEN Response.code = 200
          ELSE Response.code = 404]_vars

\* C11: GET /api/download/{id}/file is answered 404 when the table holds no
\* record for id and 409 or 425 when it holds one whose status is not
\* completed; an artifact (200 or a redirect) is never returned for a job
\* that is queued, processing, error or expired.
IsFileRequest(req) ==
    /\ req.method = "GET"
    /\ Len(req.path) = 4
    /\ req.path = PathDownloadIdFile(req.path[3])

NotReadyCodes == {409, 425}
ArtifactCodes == {200, 302, 307}

C11_GetFileErrors ==
    [][(Answers /\ IsFileRequest(AnsweredRequest)) =>
          LET id == AnsweredRequest.path[3]
          IN  IF id \notin DOMAIN downloadStatuses
              THEN Response.code = 404
              ELSE downloadStatuses[id].status # "completed" => Response.code \in NotReadyCodes]_vars

\* C12: once a job is completed its downloadUrl is set and
\* GET /api/download/{id}/file returns its artifact.
C12_GetFileOfCompleted ==
    [][(Answers /\ IsFileRequest(AnsweredRequest)
           /\ AnsweredRequest.path[3] \in DOMAIN downloadStatuses
           /\ downloadStatuses[AnsweredRequest.path[3]].status = "completed") =>
          /\ downloadStatuses[AnsweredRequest.path[3]].downloadUrl # Undefined
          /\ Response.code \in ArtifactCodes]_vars

\* C13: DELETE /api/download/{id} succeeds and leaves no record for id; when
\* there was none it leaves the table as it was.
IsCleanupRequest(req) == req.method = "DELETE" /\ downloadMatch(req.path)

C13_Cleanup ==
    [][(Answers /\ IsCleanupRequest(AnsweredRequest)) =>
          /\ Response.code = 200
          /\ AnsweredRequest.path[3] \notin DOMAIN downloadStatuses'
          /\ AnsweredRequest.path[3] \notin DOMAIN downloadStatuses
                => downloadStatuses' = downloadStatuses]_vars

\* C16: a POST /api/download whose format or quality is not on the list of
\* supported formats and qualities is answered 400 and creates no job, also
\* when both are non-empty and the url is of a known platform.
SupportedFormats == {"mp4", "mp3", "avi", "mov"}
SupportedQualities == {"1080p", "720p", "480p", "360p"}

C16_AllowList ==
    [][(Answers /\ IsSubmit(AnsweredRequest)
           /\ (AnsweredRequest.body.format \notin SupportedFormats
               \/ AnsweredRequest.body.quality \notin SupportedQualities)) =>
          /\ Response.code = 400
          /\ downloadStatuses' = downloadStatuses
          /\ timers' = timers]_vars

\* C20: the table and the pending callbacks change only in the step of an
\* accepted submit or of a callback; every other answered request (status
\* read, video-info, health, supported-platforms, preflight, unmatched
\* route, refused submit) leaves them as they were.
AcceptsSubmit == Answers /\ IsSubmit(AnsweredRequest) /\ Response.code = 200
RunsCallback == timers' # timers /\ timers' \subseteq timers

C20_OnlySubmitAndCallbacksWrite ==
    [][/\ (downloadStatuses' # downloadStatuses \/ timers' # timers)
             => (AcceptsSubmit \/ RunsCallback)
       /\ (Answers /\ ~AcceptsSubmit)
             => (downloadStatuses' = downloadStatuses /\ timers' = timers)]_vars

\* a video-info preview answered while a job of the table is in progress
C20_Witness ==
    /\ wire # <<>>
    /\ wire[1].request.path = PathVideoInfo
    /\ wire[1].code = 200
    /\ \E id \in DOMAIN downloadStatuses : downloadStatuses[id].status = "processing"
    /\ timers # {}

\* C14: once the retention window has passed since a record's createdAt,
\* the next GET /api/download/{id} reports the record with status expired,
\* and GET /api/download/{id}/file returns no artifact for it.
PastRetention(rec) ==
    \E t \in TimePoints : rec.createdAt = toISOString(t) /\ now > t + RetentionWindow

C14_ExpiredOnRead ==
    [][(Answers /\ (IsStatusRead(AnsweredRequest) \/ IsFileRequest(AnsweredRequest))
           /\ AnsweredRequest.path[3] \in DOMAIN downloadStatuses
           /\ PastRetention(downloadStatuses[AnsweredRequest.path[3]])) =>
          /\ IsStatusRead(AnsweredRequest)
                => (Response.code = 200 /\ Response.body.status.status = "expired")
          /\ IsFileRequest(AnsweredRequest) => Response.code \notin ArtifactCodes]_vars

\* C17: in every reachable state GET /api/download/{id} can be answered for
\* every id, in one step and with the record as stored or 404, whatever
\* callbacks of that or of other jobs are pending.
C17_StatusReadNeverBlocks ==
    \A id \in RequestIds :
        ENABLED (/\ GetDownload(Request("GET", PathDownloadId(id), NoBody))
                 /\ wire'[1].code = IF id \in DOMAIN downloadStatuses THEN 200 ELSE 404)

\* a record was read while a callback of its job was due and had not run
C17_Witness ==
    /\ wire # <<>>
    /\ IsStatusRead(wire[1].request)
    /\ wire[1].code = 200
    /\ wire[1].body.status.status = "queued"
    /\ \E t \in timers : t.id = wire[1].request.path[3] /\ t.due <= now

\* C18: a callback that finds no record for its id leaves the table as it
\* is; one that finds the record leaves the table's ids and every other
\* record as they are and writes status and progress (and, on completion,
\* completedAt and downloadUrl) together in its one step.
CallbackWrites == {<<"processing", Progress1>>, <<"processing", Progress2>>, <<"completed", Progress3>>}

C18_CallbackAtomic ==
    [][/\ ProgressCallback(downloadStatuses, NeverIssuedId, Progress1) = downloadStatuses
       /\ CompletionCallback(downloadStatuses, NeverIssuedId, "mp4", now) = downloadStatuses
       /\ RunsCallback =>
             \A t \in timers \ timers' :
                 IF t.id \notin DOMAIN downloadStatuses
                 THEN downloadStatuses' = downloadStatuses
                 ELSE /\ DOMAIN downloadStatuses' = DOMAIN downloadStatuses
                      /\ \A k \in DOMAIN downloadStatuses \ {t.id} :
                             downloadStatuses'[k] = downloadStatuses[k]
                      /\ LET new == downloadStatuses'[t.id]
                         IN  /\ <<new.status, new.progress>> \in CallbackWrites
                             /\ (new.status = "completed")
                                   <=> (new.completedAt # Undefined /\ new.downloadUrl # Undefined)]_vars

\* the first callback of a job has written processing and 25 together while
\* another job's record is still as submitted
C18_Witness ==
    /\ \E a, b \in DOMAIN downloadStatuses :
          /\ downloadStatuses[a].status = "processing"
          /\ downloadStatuses[a].progress = Progress1
          /\ downloadStatuses[b].status = "queued"
    /\ Cardinality({t.id : t \in timers}) = 2

\* C19: a submit leaves the record of every job with pending callbacks as it
\* is, and a callback of one job leaves the record of every other job with
\* pending callbacks as it is.
C19_JobsIndependent ==
    [][/\ AcceptsSubmit =>
             \A u \in timers : downloadStatuses'[u.id] = downloadStatuses[u.id]
       /\ RunsCallback =>
             \A t \in timers \ timers' :
                 \A u \in timers :
                     u.job # t.job => downloadStatuses'[u.id] = downloadStatuses[u.id]]_vars

\* C21: a POST /api/download whose body is not JSON is answered 500 and one
\* whose JSON lacks url, format or quality is answered 400, both leaving the
\* table and the pending callbacks as they were; whenever a request changes
\* the table, the record it stored has its id, status queued, progress 0 and
\* a createdAt, and the answer is 200.
IsDownloadPost(req) == req.method = "POST" /\ req.path = PathDownload

C21_FailedRequestLeavesStore ==
    [][(Answers /\ IsDownloadPost(AnsweredRequest)) =>
          /\ AnsweredRequest.body.json = "malformed" => Response.code = 500
          /\ (AnsweredRequest.body.json = "object" /\ MissingFields(AnsweredRequest.body))
                => Response.code = 400
          /\ Response.code \in {200, 400, 500}
          /\ Response.code # 200 => (downloadStatuses' = downloadStatuses /\ timers' = timers)
          /\ Response.code = 200 =>
                \E id \in DOMAIN downloadStatuses' :
                    /\ downloadStatuses'[id].id = id
                    /\ downloadStatuses'[id].status = "queued"
                    /\ downloadStatuses'[id].progress = 0
                    /\ downloadStatuses'[id].createdAt = toISOString(now)
                    /\ \A k \in DOMAIN downloadStatuses' \ {id} :
                           k \in DOMAIN downloadStatuses /\ downloadStatuses'[k] = downloadStatuses[k]]_vars

\* a body that is not JSON answered 500 while a job is in progress
C21_Witness ==
    /\ wire # <<>>
    /\ IsDownloadPost(wire[1].request)
    /\ wire[1].request.body.json = "malformed"
    /\ wire[1].code = 500
    /\ \E id \in DOMAIN downloadStatuses : downloadStatuses[id].status = "processing"

\* C24: detectPlatform(url) is the capitalised name of the first pattern, in
\* the order of platformPatterns, that matches url, and Unknown exactly when
\* none matches; the platform a video-info answer reports is that label, and
\* answering it leaves the state as it was.
C24_DetectPlatform ==
    [][/\ \A u \in Urls :
             /\ (detectPlatform(u) = "Unknown")
                   <=> (\A i \in 1..Len(PatternOrder) : ~RegexTest(PatternOrder[i], u))
             /\ detectPlatform(u) # "Unknown" =>
                   \E i \in 1..Len(PatternOrder) :
                       /\ RegexTest(PatternOrder[i], u)
                       /\ \A j \in 1..(i - 1) : ~RegexTest(PatternOrder[j], u)
                       /\ detectPlatform(u) = Capitalize[PatternOrder[i]]
       /\ (Answers /\ AnsweredRequest.method = "POST" /\ AnsweredRequest.path = PathVideoInfo) =>
             /\ downloadStatuses' = downloadStatuses /\ timers' = timers
             /\ Response.code = 200 =>
                   \E i \in 1..Len(PatternOrder) :
                       /\ RegexTest(PatternOrder[i], AnsweredRequest.body.url)
                       /\ \A j \in 1..(i - 1) : ~RegexTest(PatternOrder[j], AnsweredRequest.body.url)
                       /\ Response.body.videoInfo.platform = Capitalize[PatternOrder[i]]
             /\ (AnsweredRequest.body.json = "object" /\ AnsweredRequest.body.url = UrlYoutubeShortId)
                   => Response.code = 400]_vars

\* a url that the vimeo and the twitch pattern both match was reported as Vimeo
C24_Witness ==
    /\ wire # <<>>
    /\ wire[1].request.path = PathVideoInfo
    /\ wire[1].request.body.url = UrlVimeoTwitch
    /\ wire[1].code = 200
    /\ wire[1].body.videoInfo.platform = "Vimeo"

(***************************************************************************)
(* Properties of pollDownloadStatus.  A step resumes the call when it      *)
(* consumes the answer of the outstanding status request.                  *)
(***************************************************************************)
Called == poller'.call.phase # "idle"
Resumes == poller'.log.answers > poller.log.answers
Fetches == Len(poller'.log.fetched) > Len(poller.log.fetched)
LastFetched == poller'.log.fetched[Len(poller'.log.fetched)]
IsTerminal(st) == st.status \in TerminalStatuses
OnUpdateReturned == ~poller'.log.lastThrew

\* C22: the statuses passed to onUpdate are the statuses fetched, in the
\* order fetched; when a fetched status is completed, error or expired (and
\* onUpdate returns) the promise is resolved with that status in that task,
\* and once a terminal status has been fetched no status request is sent.
C22_SurfacesEveryStatus ==
    [][/\ poller'.log.updates = poller'.log.fetched
       /\ (Fetches /\ IsTerminal(LastFetched) /\ OnUpdateReturned) =>
             /\ poller'.call.settled = "resolved"
             /\ poller'.call.value = LastFetched
             /\ poller'.call.phase = "done"
       /\ (\E i \in 1..Len(poller.log.fetched) : IsTerminal(poller.log.fetched[i])) =>
             /\ poller'.log.requests = poller.log.requests
             /\ poller'.log.updates = poller.log.updates]_vars

\* queued and processing were passed on before completed resolved the call
C22_Witness ==
    /\ poller.call.settled = "resolved"
    /\ poller.call.value.status = "completed"
    /\ Len(poller.log.updates) = 3
    /\ poller.log.updates[1].status = "queued"
    /\ poller.log.updates[2].status = "processing"
    /\ poller.log.requests = 3

\* The attempt budget, for a call allowed budget requests: no more than
\* budget status requests are sent; a resumed task (whose onUpdate returns)
\* rejects with the timeout message exactly when the answer of request
\* number budget carries a status that is not terminal; a terminal status
\* resolves on every attempt; and a call that has sent budget requests and
\* has none outstanding is settled.
AttemptBudget(budget) ==
    /\ Called => poller'.log.requests <= budget
    /\ (Fetches /\ OnUpdateReturned) =>
          /\ (poller'.call.settled = "rejected" /\ poller'.call.error = TimeoutMessage)
                <=> (poller'.log.requests = budget /\ ~IsTerminal(LastFetched))
          /\ IsTerminal(LastFetched) => poller'.call.settled = "resolved"
    /\ poller'.call.settled = "rejected" /\ poller'.call.error = TimeoutMessage => Fetches
    /\ (Called /\ poller'.log.requests = budget /\ poller'.log.answers = budget)
          => poller'.call.settled # "pending"

\* C23 as claimed: the budget of a call is its maxAttempts.
C23_AtMostMaxAttempts == [][AttemptBudget(poller'.call.maxAttempts)]_vars

\* C23 as amended: the budget of a call is maxAttempts, and 1 when
\* maxAttempts is less than 1.
C23_AtMostMaxAttemptsOrOne ==
    [][AttemptBudget(IF poller'.call.maxAttempts < 1 THEN 1 ELSE poller'.call.maxAttempts)]_vars

\* a call with maxAttempts 2 timed out when its second request was answered
\* processing
C23_Witness ==
    /\ poller.call.settled = "rejected"
    /\ poller.call.error = TimeoutMessage
    /\ poller.call.maxAttempts = 2
    /\ poller.log.requests = 2
    /\ poller.log.fetched[2].status = "processing"

\* C25: when the status request fails, or onUpdate throws, that task
\* rejects the promise with the error of the failure (never the timeout
\* message), whatever attempts and maxAttempts are, sets no timer, and no
\* status request follows.
RequestErrors == {"Job not found", "HTTP 404", NetworkErrorMessage}

C25_FailureRejectsAtOnce ==
    [][/\ (Resumes /\ ~Fetches) =>
             /\ poller'.call.settled = "rejected"
             /\ poller'.call.error \in RequestErrors
             /\ poller'.call.phase = "done"
       /\ (Resumes /\ poller'.log.lastThrew) =>
             /\ poller'.call.settled = "rejected"
             /\ poller'.call.error = OnUpdateError
             /\ poller'.call.phase = "done"
       /\ poller.call.settled = "rejected" => poller'.log.requests = poller.log.requests]_vars

\* the second of three allowed requests was answered 404 without a detail
C25_Witness ==
    /\ poller.call.settled = "rejected"
    /\ poller.call.error = "HTTP 404"
    /\ poller.call.maxAttempts = 3
    /\ poller.log.requests = 2
    /\ Len(poller.log.fetched) = 1

\* C26: resolve and reject are called once between them, and only in a task
\* that leaves the call done; at most one status request is unanswered; a
\* call has sent a request as soon as it is made, whatever maxAttempts is;
\* a settled call sends no request and calls onUpdate no more.
C26_SettlesOnce ==
    [][/\ Len(poller'.log.settles) <= 1
       /\ (poller'.call.settled # "pending") <=> (Len(poller'.log.settles) = 1)
       /\ (poller'.call.settled # "pending") <=> (poller'.call.phase = "done")
       /\ poller'.log.requests - poller'.log.answers \in {0, 1}
       /\ Called => poller'.log.requests >= 1
       /\ poller.call.settled # "pending" =>
             /\ poller'.log.requests = poller.log.requests
             /\ poller'.log.updates = poller.log.updates]_vars

\* a call with a negative maxAttempts sent one request and resolved
C26_Witness ==
    /\ poller.call.maxAttempts < 0
    /\ poller.call.settled = "resolved"
    /\ poller.log.requests = 1
    /\ Len(poller.log.settles) = 1

(***************************************************************************)
(* Properties of the App.                                                  *)
(***************************************************************************)
BackendStatuses == {"checking", "online", "offline"}
Refused(url, backendStatus) ==
    trim(url) = "" \/ ~isValidVideoUrl(url) \/ backendStatus = "offline"
GuardMessages == {BlankUrlMessage, InvalidUrlMessage, OfflineMessage}

\* C27: handleDownload returns early with a message exactly when the url is
\* blank, fails isValidVideoUrl, or the backend is offline; in such a state
\* no submit is sent, and the task that sets one of the three messages
\* changes nothing else; a submit that the server refuses sets the error
\* message, adds no item and starts no poller; an item is only ever added
\* for a submitted url that passed isValidVideoUrl.
C27_NoSubmitWhenRefused ==
    [][/\ app'.error # app.error =>
             \A u \in AppUrls, b \in BackendStatuses :
                 Refused(u, b) <=> handleDownloadGuard(u, b) # ""
       /\ (app.submitting = Undefined /\ Refused(app.url, app.backendStatus))
             => app'.submitting = Undefined
       /\ (app'.error \in GuardMessages /\ app'.error # app.error)
             => (Refused(app.url, app.backendStatus) /\ app' = [app EXCEPT !.error = app'.error])
       /\ (app.submitting # Undefined /\ app'.submitting = Undefined
              /\ DOMAIN app'.backend = DOMAIN app.backend)
             => /\ app'.downloads = app.downloads
                /\ app'.pollers = app.pollers
                /\ app'.error \in SubmitErrors
       /\ Len(app'.downloads) > Len(app.downloads)
             => (app.submitting # Undefined /\ isValidVideoUrl(app.submitting))]_vars

\* the backend went offline after a first submit; the next click on Download
\* only set the message
C27_Witness ==
    /\ app.backendStatus = "offline"
    /\ app.url = UrlYoutube
    /\ app.error = OfflineMessage
    /\ app.submitting = Undefined
    /\ Len(app.downloads) = 1
    /\ Len(app.pollers) = 1

\* C28: an item leaves the list only in the task that consumes the
\* successful answer of a cleanup of its id, and alone; a cleanup that failed
\* leaves the list as it is; an id that has left the list never enters it
\* again, and no answer to a status request of a removed id changes the list.
Removed(id) == id \in DOMAIN app.backend /\ id \notin ItemIds(app.downloads)

C28_RemovedOnlyByCleanup ==
    [][\A id \in JobIds :
          /\ (id \in ItemIds(app.downloads) /\ id \notin ItemIds(app'.downloads)) =>
                /\ id \in app.cleaning /\ id \notin app'.cleaning
                /\ ~app.backend[id].deleted /\ app'.backend[id].deleted
                /\ app'.downloads = Filter(app.downloads, id)
          /\ (id \in app.cleaning /\ id \notin app'.cleaning
                 /\ app'.backend[id].deleted = app.backend[id].deleted)
                => app'.downloads = app.downloads
          /\ Removed(id) => id \notin ItemIds(app'.downloads)
          /\ (Removed(id)
                 /\ \/ id \in app.refreshing /\ id \notin app'.refreshing
                    \/ \E k \in 1..Len(app.pollers) :
                           app.pollers[k].job = id /\ app'.pollers[k] # app.pollers[k])
                => app'.downloads = app.downloads]_vars

\* one item was removed by a cleanup while a refresh of it was unanswered,
\* and the other item is still listed
C28_Witness ==
    \E id \in DOMAIN app.backend :
        /\ app.backend[id].deleted
        /\ id \notin ItemIds(app.downloads)
        /\ id \in app.refreshing
        /\ Len(app.downloads) = 1

\* C29: in the task in which the poller of a job rejects, the item of that
\* job, if listed, gets status error and the message 'Download monitoring
\* failed', and every other item stays as it is.
C29_PollerFailureMarksItem ==
    [][\A k \in 1..Len(app.pollers) :
          (app.pollers[k].call.settled = "pending" /\ app'.pollers[k].call.settled = "rejected") =>
              /\ Len(app'.downloads) = Len(app.downloads)
              /\ \A i \in 1..Len(app.downloads) :
                     IF app.downloads[i].id = app.pollers[k].job
                     THEN /\ app'.downloads[i].status = "error"
                          /\ app'.downloads[i].error_message = MonitoringFailedMessage
                     ELSE app'.downloads[i] = app.downloads[i]]_vars

\* C30: an item whose status is completed, error or expired keeps a status
\* of these three for as long as it is listed.
C30_TerminalItemStaysTerminal ==
    [][\A id \in ItemIds(app.downloads) \cap ItemIds(app'.downloads) :
          ItemOf(app.downloads, id).status \in TerminalStatuses
              => ItemOf(app'.downloads, id).status \in TerminalStatuses]_vars

====
